---- MODULE Spec2Model ----
(***************************************************************************)
(* Model of vehicle-api-service/main.py: one shared dict vehicle_state,    *)
(* mutated by the background thread update_vehicle_state (the tick) and by *)
(* the Flask request handlers set_motor_speed, toggle_charging and         *)
(* reset_state, mirrored to one Firestore document by doc_ref.set.         *)
(*                                                                         *)
(* The source takes no lock anywhere, so every thread is modelled by its   *)
(* position (pc) and advances one access of vehicle_state at a time: a     *)
(* statement that reads the dict and then stores into it is a read step    *)
(* (into a local) followed by a write step.                                *)
(*                                                                         *)
(* Numbers.  battery_percentage, battery_temperature and power are Python  *)
(* floats.  They are modelled in fixed point: battery in 1/BattScale of a  *)
(* percentage point, temperature in 1/TempScale of a degree, power in      *)
(* 1/PowerScale of a kW.  Every constant of the source (0.1, 0.05, 0.2,    *)
(* 0.4, the tables) is exact at these scales; only the battery drain       *)
(* power * 0.001 is truncated to the battery resolution.                   *)
(***************************************************************************)
EXTENDS Integers, FiniteSets, TLC

\* ---------------------------------------------------------------- bounds
MaxTicks == 1      \* iterations of the update loop begun after Init
MaxCalls == 2      \* HTTP requests started after Init
MaxFlips == 1      \* random flips of parking_brake / check_engine
MaxPreempt == 1    \* switches away from a thread that is neither blocked nor idle

\* ------------------------------------------------------- fixed-point scales
BattScale == 1000
TempScale == 100
PowerScale == 100 * BattScale

\* ------------------------------------------------------ program constants
MIN_BATTERY_THRESHOLD == 20
HIGH_RPM_THRESHOLD == 3000
MAX_TEMPERATURE == 80
MIN_TEMPERATURE == 25

Speeds == 0 .. 4

POWER_CONSUMPTION_RATE == (0 :> 0 @@ 1 :> 100 @@ 2 :> 300 @@ 3 :> 600 @@ 4 :> 1000)
RPM_SETTINGS == (0 :> 0 @@ 1 :> 1500 @@ 2 :> 3000 @@ 3 :> 4500 @@ 4 :> 6000)
GEAR_RATIOS == (0 :> "N/N" @@ 1 :> "4.5:1" @@ 2 :> "6.2:1" @@ 3 :> "8.1:1" @@ 4 :> "10.3:1")

Max(a, b) == IF a >= b THEN a ELSE b
Min(a, b) == IF a <= b THEN a ELSE b

\* the sentinel written by toggle_charging while charging
CHARGING_POWER == (0 - 5) * PowerScale

\* ----------------------------------------------------------- pure functions
\* calculate_power_consumption: 0 when the battery is empty, else
\* base_power * max(0.5, battery / 100)
calculate_power_consumption(speed_setting, battery_percentage) ==
    IF battery_percentage <= 0
    THEN 0
    ELSE POWER_CONSUMPTION_RATE[speed_setting]
           * Max(PowerScale \div 2, battery_percentage * (PowerScale \div (100 * BattScale)))

\* consumption_rate = power_consumption * 0.001 * 1, in battery units
ConsumptionRate(power_consumption) ==
    power_consumption \div ((PowerScale \div BattScale) * 1000)

\* mutant: the drain without its clamp at 0
DrainedBatteryNoClamp(battery_percentage, consumption_rate) ==
    battery_percentage - consumption_rate

\* max(0, battery - consumption_rate)
DrainedBattery(battery_percentage, consumption_rate) ==
    Max(0, battery_percentage - consumption_rate)

\* MIN_TEMPERATURE + (MAX_TEMPERATURE - MIN_TEMPERATURE) * speed / 4
TargetTemp(speed_setting) ==
    MIN_TEMPERATURE * TempScale
      + ((MAX_TEMPERATURE - MIN_TEMPERATURE) * TempScale * speed_setting) \div 4

\* min(target_temp, temperature + 0.1)
HeatedTemp(target_temp, battery_temperature) ==
    Min(target_temp, battery_temperature + TempScale \div 10)

\* charge_rate: 0.2 per tick, 0.4 below 20 percent
ChargeRate(battery_percentage) ==
    IF battery_percentage < 20 * BattScale THEN (2 * BattScale) \div 5 ELSE BattScale \div 5

\* min(100, battery + charge_rate)
ChargedBattery(battery_percentage, charge_rate) ==
    Min(100 * BattScale, battery_percentage + charge_rate)

\* max(MIN_TEMPERATURE, temperature - 0.05)
CooledTemp(battery_temperature) ==
    Max(MIN_TEMPERATURE * TempScale, battery_temperature - TempScale \div 20)

BatteryLow(battery_percentage) == battery_percentage < MIN_BATTERY_THRESHOLD * BattScale
MotorStatus(motor_rpm) == motor_rpm > HIGH_RPM_THRESHOLD

\* ------------------------------------------------------------------- state
VARIABLES
    vehicle_state,   \* the shared dict
    store,           \* the Firestore document vehiclestate/current_state
    tick,            \* the update thread: pc and locals
    hs,              \* the request handler threads: pc, request, locals, response
    clock,           \* datetime.now(): strictly increasing
    running,         \* the thread that took the last step (it holds the GIL)
    nticks, ncalls, nflips, npreempt

vars == <<vehicle_state, store, tick, hs, clock, running, nticks, ncalls, nflips, npreempt>>

\* mutant: a default record that leaves the pack at 20 degrees
DefaultStateCold(t) ==
    [ parking_brake |-> FALSE, check_engine |-> FALSE, motor_status |-> FALSE,
      battery_low |-> FALSE, power |-> 0, motor_rpm |-> 0, gear_ratio |-> "N/N",
      battery_percentage |-> 100 * BattScale,
      battery_temperature |-> 20 * TempScale,
      motor_speed_setting |-> 0, is_charging |-> FALSE, last_update |-> t ]

\* the record of lines 192-205 (and 350-363), stamped with the time t
DefaultState(t) ==
    [ parking_brake |-> FALSE, check_engine |-> FALSE, motor_status |-> FALSE,
      battery_low |-> FALSE, power |-> 0, motor_rpm |-> 0, gear_ratio |-> "N/N",
      battery_percentage |-> 100 * BattScale,
      battery_temperature |-> 25 * TempScale,
      motor_speed_setting |-> 0, is_charging |-> FALSE, last_update |-> t ]

Handlers == {"w1", "w2"}

IdleHandler ==
    [ pc |-> "idle", op |-> "none", speed |-> 0, charging |-> FALSE, nv |-> 0, nb |-> FALSE,
      dirty |-> FALSE, saved |-> FALSE,
      code |-> 0, msg |-> "", rpm |-> 0, power |-> 0, battery |-> 0 ]

IdleTick == [ pc |-> "t118", rate |-> 0, tgt |-> 0, nv |-> 0, nb |-> FALSE ]


\* ------------------------------------------- serial (uninterrupted) effects
\* lines 279-286 run without interruption
SerialSetSpeed(vs, s) ==
    [ vs EXCEPT !.motor_speed_setting = s,
                !.motor_rpm = RPM_SETTINGS[s],
                !.power = calculate_power_consumption(s, vs.battery_percentage),
                !.motor_status = MotorStatus(RPM_SETTINGS[s]),
                !.gear_ratio = GEAR_RATIOS[s] ]

\* lines 118-163 run without interruption (no random flip; the time stamp
\* of the states Init starts from is normalised to 0)
SerialTick(vs) ==
    LET driving == ~vs.is_charging /\ vs.motor_speed_setting > 0
        b == vs.battery_percentage
        t == vs.battery_temperature
        b1 == IF driving
              THEN DrainedBattery(b, ConsumptionRate(
                       calculate_power_consumption(vs.motor_speed_setting, b)))
              ELSE IF vs.is_charging THEN ChargedBattery(b, ChargeRate(b)) ELSE b
        t1 == IF driving
              THEN IF t < TargetTemp(vs.motor_speed_setting)
                   THEN HeatedTemp(TargetTemp(vs.motor_speed_setting), t) ELSE t
              ELSE IF vs.is_charging THEN CooledTemp(t) ELSE t
    IN  [ vs EXCEPT !.battery_percentage = b1,
                    !.battery_temperature = t1,
                    !.battery_low = BatteryLow(b1),
                    !.motor_status = MotorStatus(vs.motor_rpm) ]

\* lines 322-328 run without interruption
SerialToggle(vs, charging) ==
    IF charging
    THEN [ vs EXCEPT !.is_charging = TRUE, !.motor_speed_setting = 0,
                     !.motor_rpm = 0, !.power = CHARGING_POWER ]
    ELSE [ vs EXCEPT !.is_charging = FALSE, !.power = 0 ]

\* one more tick unless the battery is at or below blevel or the temperature
\* at or above tlevel
StepUntil(vs, blevel, tlevel) ==
    IF vs.battery_percentage <= blevel \/ vs.battery_temperature >= tlevel
    THEN vs
    ELSE SerialTick(vs)

\* StepUntil n times.  The first half is evaluated before the second half
\* starts, which keeps the evaluation shallow.
RECURSIVE DriveSteps(_, _, _, _)
DriveSteps(vs, blevel, tlevel, n) ==
    IF n = 1
    THEN StepUntil(vs, blevel, tlevel)
    ELSE LET half == DriveSteps(vs, blevel, tlevel, n \div 2)
         IN  IF half.battery_percentage >= 0
             THEN DriveSteps(half, blevel, tlevel, n - n \div 2)
             ELSE half

\* the state after ticking at speed 4 until the battery is at or below
\* blevel or the temperature at or above tlevel: a tick at speed 4 heats by
\* 0.1 up to 80, so 1024 ticks reach any level
DriveUntil(vs, blevel, tlevel) == DriveSteps(vs, blevel, tlevel, 1024)

\* States the program reaches from its start by an uninterrupted run of
\* requests and ticks.  A run from the start state takes 130 to 550 ticks
\* to get there; the model starts from them as well, so that the cases of a
\* low, an empty and a full battery and of a hot pack are within its bounds.
\*   NearEmpty  set_motor_speed(4), ticks until the battery is within one
\*              tick of empty
\*   LowIdle    set_motor_speed(4), ticks until the battery is below 20,
\*              set_motor_speed(0)
\*   Topping    set_motor_speed(1), a tick, set_motor_speed(0),
\*              toggle_charging(true), a tick: battery 100, 25.05 degrees
\*   Charged    Topping and one more tick: battery 100, 25 degrees, charging
\*   Hot        Topping, toggle_charging(false), set_motor_speed(4), ticks
\*              until the pack is within one tick of 80 degrees
\*   Parked     set_motor_speed(1), a tick, set_motor_speed(0): battery
\*              99.9, 25.1 degrees, idle
NearEmpty ==
    DriveUntil(SerialSetSpeed(DefaultState(0), 4), BattScale \div 2,
               MAX_TEMPERATURE * TempScale)
LowIdle ==
    SerialSetSpeed(DriveUntil(SerialSetSpeed(DefaultState(0), 4),
                              MIN_BATTERY_THRESHOLD * BattScale - 1,
                              MAX_TEMPERATURE * TempScale), 0)
Topping ==
    SerialTick(SerialToggle(
        SerialSetSpeed(SerialTick(SerialSetSpeed(DefaultState(0), 1)), 0), TRUE))
Charged == SerialTick(Topping)
Parked == SerialSetSpeed(SerialTick(SerialSetSpeed(DefaultState(0), 1)), 0)
Hot ==
    DriveUntil(SerialSetSpeed(SerialToggle(Topping, FALSE), 4), 0 - 1,
               MAX_TEMPERATURE * TempScale - TempScale \div 20)

InitStates == { DefaultState(0), NearEmpty, LowIdle, Charged, Hot, Parked }

Init ==
    /\ vehicle_state \in InitStates
    /\ store = vehicle_state
    /\ tick = IdleTick
    /\ hs = [h \in Handlers |-> IdleHandler]
    /\ clock = 0
    /\ running = "none"
    /\ nticks = 0 /\ ncalls = 0 /\ nflips = 0 /\ npreempt = 0

\* --------------------------------------------------------------- scheduling
\* Threads switch freely where the running thread is between operations: the
\* update thread in time.sleep (the loop head), a worker waiting for a
\* request.  A switch anywhere else, doc_ref.set and the sending of a
\* response included, counts as a preemption; the model allows MaxPreempt of
\* them in a run.
Yields(t) ==
    CASE t = "none" -> TRUE
      [] t = "tick" -> tick.pc = "t118"
      [] OTHER -> hs[t].pc = "idle"

Sched(t) ==
    /\ running' = t
    /\ IF running = t \/ Yields(running)
       THEN npreempt' = npreempt
       ELSE npreempt < MaxPreempt /\ npreempt' = npreempt + 1

\* ------------------------------------------------ update_vehicle_state
TickOnly == Sched("tick") /\ UNCHANGED <<hs, ncalls>>
TickLocal == TickOnly /\ UNCHANGED <<vehicle_state, store, clock, nticks, nflips>>
TickWrite == TickOnly /\ UNCHANGED <<store, clock, nticks, nflips>>

\* line 118 (loop head): if not is_charging and motor_speed_setting > 0
T118 ==
    /\ tick.pc = "t118" /\ nticks < MaxTicks
    /\ nticks' = nticks + 1
    /\ tick' = [ IdleTick EXCEPT !.pc =
                   IF ~vehicle_state.is_charging /\ vehicle_state.motor_speed_setting > 0
                   THEN "t120" ELSE "t144" ]
    /\ TickOnly /\ UNCHANGED <<vehicle_state, store, clock, nflips>>

\* lines 120-124: power_consumption, consumption_rate
T120 ==
    /\ tick.pc = "t120"
    /\ tick' = [ tick EXCEPT !.pc = "t127r",
                 !.rate = ConsumptionRate(calculate_power_consumption(
                              vehicle_state.motor_speed_setting,
                              vehicle_state.battery_percentage)) ]
    /\ TickLocal

\* lines 127-130, right-hand side
T127r ==
    /\ tick.pc = "t127r"
    /\ tick' = [ tick EXCEPT !.pc = "t127w", !.rate = 0,
                 !.nv = DrainedBattery(vehicle_state.battery_percentage, tick.rate) ]
    /\ TickLocal

\* mutant: the drain switches the motor off when the battery is empty
T127wStopsMotor ==
    /\ tick.pc = "t127w"
    /\ vehicle_state' = IF tick.nv <= 0
                        THEN [ vehicle_state EXCEPT !.battery_percentage = tick.nv,
                                                    !.motor_speed_setting = 0,
                                                    !.motor_rpm = 0, !.power = 0 ]
                        ELSE [ vehicle_state EXCEPT !.battery_percentage = tick.nv ]
    /\ tick' = [ tick EXCEPT !.pc = "t133", !.nv = 0 ]
    /\ TickWrite

\* lines 127-130, the store
T127w ==
    /\ tick.pc = "t127w"
    /\ vehicle_state' = [ vehicle_state EXCEPT !.battery_percentage = tick.nv ]
    /\ tick' = [ tick EXCEPT !.pc = "t133", !.nv = 0 ]
    /\ TickWrite

\* lines 133-136: target_temp
T133 ==
    /\ tick.pc = "t133"
    /\ tick' = [ tick EXCEPT !.pc = "t138",
                 !.tgt = TargetTemp(vehicle_state.motor_speed_setting) ]
    /\ TickLocal

\* line 138: if battery_temperature < target_temp
T138 ==
    /\ tick.pc = "t138"
    /\ tick' = IF vehicle_state.battery_temperature < tick.tgt
               THEN [ tick EXCEPT !.pc = "t139r" ]
               ELSE [ tick EXCEPT !.pc = "t162r", !.tgt = 0 ]
    /\ TickLocal

\* lines 139-142, right-hand side
T139r ==
    /\ tick.pc = "t139r"
    /\ tick' = [ tick EXCEPT !.pc = "t139w", !.tgt = 0,
                 !.nv = HeatedTemp(tick.tgt, vehicle_state.battery_temperature) ]
    /\ TickLocal

\* lines 139-142, the store
T139w ==
    /\ tick.pc = "t139w"
    /\ vehicle_state' = [ vehicle_state EXCEPT !.battery_temperature = tick.nv ]
    /\ tick' = [ tick EXCEPT !.pc = "t162r", !.nv = 0 ]
    /\ TickWrite

\* mutant: an idle vehicle cools down like a charging one
T144CoolsWhenIdle ==
    /\ tick.pc = "t144"
    /\ tick' = [ tick EXCEPT !.pc = IF vehicle_state.is_charging THEN "t147" ELSE "t156r" ]
    /\ TickLocal

\* line 144: elif is_charging
T144 ==
    /\ tick.pc = "t144"
    /\ tick' = [ tick EXCEPT !.pc = IF vehicle_state.is_charging THEN "t147" ELSE "t162r" ]
    /\ TickLocal

\* lines 146-148: charge_rate
T147 ==
    /\ tick.pc = "t147"
    /\ tick' = [ tick EXCEPT !.pc = "t150r",
                 !.rate = ChargeRate(vehicle_state.battery_percentage) ]
    /\ TickLocal

\* lines 150-153, right-hand side
T150r ==
    /\ tick.pc = "t150r"
    /\ tick' = [ tick EXCEPT !.pc = "t150w", !.rate = 0,
                 !.nv = ChargedBattery(vehicle_state.battery_percentage, tick.rate) ]
    /\ TickLocal

\* lines 150-153, the store
T150w ==
    /\ tick.pc = "t150w"
    /\ vehicle_state' = [ vehicle_state EXCEPT !.battery_percentage = tick.nv ]
    /\ tick' = [ tick EXCEPT !.pc = "t156r", !.nv = 0 ]
    /\ TickWrite

\* lines 156-159, right-hand side
T156r ==
    /\ tick.pc = "t156r"
    /\ tick' = [ tick EXCEPT !.pc = "t156w",
                 !.nv = CooledTemp(vehicle_state.battery_temperature) ]
    /\ TickLocal

\* lines 156-159, the store
T156w ==
    /\ tick.pc = "t156w"
    /\ vehicle_state' = [ vehicle_state EXCEPT !.battery_temperature = tick.nv ]
    /\ tick' = [ tick EXCEPT !.pc = "t162r", !.nv = 0 ]
    /\ TickWrite

\* line 162, right-hand side
T162r ==
    /\ tick.pc = "t162r"
    /\ tick' = [ tick EXCEPT !.pc = "t162w",
                 !.nb = BatteryLow(vehicle_state.battery_percentage) ]
    /\ TickLocal

\* line 162, the store
T162w ==
    /\ tick.pc = "t162w"
    /\ vehicle_state' = [ vehicle_state EXCEPT !.battery_low = tick.nb ]
    /\ tick' = [ tick EXCEPT !.pc = "t163r", !.nb = FALSE ]
    /\ TickWrite

\* line 163, right-hand side
T163r ==
    /\ tick.pc = "t163r"
    /\ tick' = [ tick EXCEPT !.pc = "t163w",
                 !.nb = MotorStatus(vehicle_state.motor_rpm) ]
    /\ TickLocal

\* line 163, the store
T163w ==
    /\ tick.pc = "t163w"
    /\ vehicle_state' = [ vehicle_state EXCEPT !.motor_status = tick.nb ]
    /\ tick' = [ tick EXCEPT !.pc = "t166", !.nb = FALSE ]
    /\ TickWrite

\* lines 166-168: random.random() >= 0.001, no flip
T166Keep ==
    /\ tick.pc = "t166"
    /\ tick' = [ tick EXCEPT !.pc = "t170" ]
    /\ TickLocal

\* lines 166-168: random.random() < 0.001, parking_brake flips
T166Flip ==
    /\ tick.pc = "t166" /\ nflips < MaxFlips
    /\ nflips' = nflips + 1
    /\ vehicle_state' = [ vehicle_state EXCEPT !.parking_brake = ~vehicle_state.parking_brake ]
    /\ tick' = [ tick EXCEPT !.pc = "t170" ]
    /\ TickOnly /\ UNCHANGED <<store, clock, nticks>>

\* lines 170-172: random.random() >= 0.0005, no flip
T170Keep ==
    /\ tick.pc = "t170"
    /\ tick' = [ tick EXCEPT !.pc = "t174" ]
    /\ TickLocal

\* lines 170-172: random.random() < 0.0005, check_engine flips
T170Flip ==
    /\ tick.pc = "t170" /\ nflips < MaxFlips
    /\ nflips' = nflips + 1
    /\ vehicle_state' = [ vehicle_state EXCEPT !.check_engine = ~vehicle_state.check_engine ]
    /\ tick' = [ tick EXCEPT !.pc = "t174" ]
    /\ TickOnly /\ UNCHANGED <<store, clock, nticks>>

\* line 174: last_update = datetime.now()
T174 ==
    /\ tick.pc = "t174"
    /\ clock' = clock + 1
    /\ vehicle_state' = [ vehicle_state EXCEPT !.last_update = clock + 1 ]
    /\ tick' = [ tick EXCEPT !.pc = "t178" ]
    /\ TickOnly /\ UNCHANGED <<store, nticks, nflips>>

\* lines 177-185: doc_ref.set(vehicle_state) succeeds, then sleep
T178 ==
    /\ tick.pc = "t178"
    /\ store' = vehicle_state
    /\ tick' = IdleTick
    /\ TickOnly /\ UNCHANGED <<vehicle_state, clock, nticks, nflips>>

\* mutant: the exception of doc_ref.set ends the update thread
T178FailStops ==
    /\ tick.pc = "t178"
    /\ tick' = [ IdleTick EXCEPT !.pc = "stopped" ]
    /\ TickLocal

\* lines 177-178, 187-189: doc_ref.set raises; logged, then sleep
T178Fail ==
    /\ tick.pc = "t178"
    /\ tick' = IdleTick
    /\ TickLocal

TickStep ==
    \/ T118 \/ T120 \/ T127r \/ T127w \/ T133 \/ T138 \/ T139r \/ T139w
    \/ T144 \/ T147 \/ T150r \/ T150w \/ T156r \/ T156w
    \/ T162r \/ T162w \/ T163r \/ T163w
    \/ T166Keep \/ T166Flip \/ T170Keep \/ T170Flip \/ T174 \/ T178 \/ T178Fail


\* ------------------------------------------------------- request handlers
Others(h) == Sched(h) /\ UNCHANGED <<tick, nticks, nflips>>
HLocal(h) == Others(h) /\ UNCHANGED <<vehicle_state, store, clock, ncalls>>
HWrite(h) == Others(h) /\ UNCHANGED <<store, clock, ncalls>>

SpeedInputs == 0 .. 5

\* return jsonify(...), code: the response of the request
Reply(r, code, msg) ==
    [ r EXCEPT !.pc = "done", !.code = code, !.msg = msg, !.nv = 0, !.nb = FALSE ]

Goto(h, p) == hs' = [ hs EXCEPT ![h].pc = p ]

\* the guards of set_motor_speed, lines 269, 272, 275
ChargingBlocksSpeed(vs) == vs.is_charging
\* mutant: < for <=
BatteryDepletedStrict(vs) == vs.battery_percentage < 0
BatteryDepleted(vs) == vs.battery_percentage <= 0
BrakeEngaged(vs) == vs.parking_brake
\* the guards of toggle_charging, lines 315, 318
MotorRunning(vs, charging) == vs.motor_speed_setting > 0 /\ charging
\* mutant: > for >=
BatteryFullStrict(vs, charging) == vs.battery_percentage > 100 * BattScale /\ charging
BatteryFull(vs, charging) == vs.battery_percentage >= 100 * BattScale /\ charging

\* lines 258-260 of set_motor_speed, 308-310 of toggle_charging: no JSON body
StartBadJson(h) ==
    /\ hs[h].pc = "idle" /\ ncalls < MaxCalls
    /\ ncalls' = ncalls + 1
    /\ \E o \in {"set", "toggle"} :
         hs' = [ hs EXCEPT ![h] =
                   Reply([IdleHandler EXCEPT !.op = o], 400, "Invalid JSON payload") ]
    /\ Others(h) /\ UNCHANGED <<vehicle_state, store, clock>>

\* lines 258-266: the request arrives, speed is validated
StartSetMotorSpeed(h) ==
    /\ hs[h].pc = "idle" /\ ncalls < MaxCalls
    /\ ncalls' = ncalls + 1
    /\ \E s \in SpeedInputs :
         hs' = [ hs EXCEPT ![h] =
                   IF s \in Speeds
                   THEN [ IdleHandler EXCEPT !.pc = "s269", !.op = "set", !.speed = s ]
                   ELSE Reply([IdleHandler EXCEPT !.op = "set", !.speed = s],
                              400, "Invalid speed setting (must be 0-4)") ]
    /\ Others(h) /\ UNCHANGED <<vehicle_state, store, clock>>

\* lines 269-270
S269(h) ==
    /\ hs[h].pc = "s269"
    /\ hs' = [ hs EXCEPT ![h] =
                 IF ChargingBlocksSpeed(vehicle_state)
                 THEN Reply(@, 400, "Cannot change speed while charging")
                 ELSE [ @ EXCEPT !.pc = "s272" ] ]
    /\ HLocal(h)

\* lines 272-273
S272(h) ==
    /\ hs[h].pc = "s272"
    /\ hs' = [ hs EXCEPT ![h] =
                 IF BatteryDepleted(vehicle_state)
                 THEN Reply(@, 400, "Battery depleted")
                 ELSE [ @ EXCEPT !.pc = "s275" ] ]
    /\ HLocal(h)

\* lines 275-276
S275(h) ==
    /\ hs[h].pc = "s275"
    /\ hs' = [ hs EXCEPT ![h] =
                 IF BrakeEngaged(vehicle_state)
                 THEN Reply(@, 400, "Cannot operate motor while parking brake is engaged")
                 ELSE [ @ EXCEPT !.pc = "s279" ] ]
    /\ HLocal(h)

\* line 279
S279(h) ==
    /\ hs[h].pc = "s279"
    /\ vehicle_state' = [ vehicle_state EXCEPT !.motor_speed_setting = hs[h].speed ]
    /\ hs' = [ hs EXCEPT ![h].pc = "s280", ![h].dirty = TRUE ]
    /\ HWrite(h)

\* line 280
S280(h) ==
    /\ hs[h].pc = "s280"
    /\ vehicle_state' = [ vehicle_state EXCEPT !.motor_rpm = RPM_SETTINGS[hs[h].speed] ]
    /\ Goto(h, "s281r")
    /\ HWrite(h)

\* lines 281-284, right-hand side
S281r(h) ==
    /\ hs[h].pc = "s281r"
    /\ hs' = [ hs EXCEPT ![h].pc = "s281w",
               ![h].nv = calculate_power_consumption(hs[h].speed,
                                                    vehicle_state.battery_percentage) ]
    /\ HLocal(h)

\* lines 281-284, the store
S281w(h) ==
    /\ hs[h].pc = "s281w"
    /\ vehicle_state' = [ vehicle_state EXCEPT !.power = hs[h].nv ]
    /\ hs' = [ hs EXCEPT ![h].pc = "s285r", ![h].nv = 0 ]
    /\ HWrite(h)

\* line 285, right-hand side
S285r(h) ==
    /\ hs[h].pc = "s285r"
    /\ hs' = [ hs EXCEPT ![h].pc = "s285w", ![h].nb = MotorStatus(vehicle_state.motor_rpm) ]
    /\ HLocal(h)

\* line 285, the store
S285w(h) ==
    /\ hs[h].pc = "s285w"
    /\ vehicle_state' = [ vehicle_state EXCEPT !.motor_status = hs[h].nb ]
    /\ hs' = [ hs EXCEPT ![h].pc = "s286", ![h].nb = FALSE ]
    /\ HWrite(h)

\* line 286
S286(h) ==
    /\ hs[h].pc = "s286"
    /\ vehicle_state' = [ vehicle_state EXCEPT !.gear_ratio = GEAR_RATIOS[hs[h].speed] ]
    /\ Goto(h, "s290")
    /\ HWrite(h)

\* lines 289-290: doc_ref.set(vehicle_state) succeeds
S290(h) ==
    /\ hs[h].pc = "s290"
    /\ store' = vehicle_state
    /\ hs' = [ hs EXCEPT ![h].pc = "s293", ![h].saved = TRUE ]
    /\ Others(h) /\ UNCHANGED <<vehicle_state, clock, ncalls>>

\* mutant: the handler restores the last persisted record when doc_ref.set raises
S290FailRollsBack(h) ==
    /\ hs[h].pc = "s290"
    /\ vehicle_state' = store
    /\ hs' = [ hs EXCEPT ![h] = Reply(@, 500, "Internal server error") ]
    /\ HWrite(h)

\* lines 289-290, 300-302: doc_ref.set raises
S290Fail(h) ==
    /\ hs[h].pc = "s290"
    /\ hs' = [ hs EXCEPT ![h] = Reply(@, 500, "Internal server error") ]
    /\ HLocal(h)

\* lines 292-298: the response reads motor_rpm and power
S293(h) ==
    /\ hs[h].pc = "s293"
    /\ hs' = [ hs EXCEPT ![h] =
                 [ Reply(@, 200, "Speed updated successfully")
                     EXCEPT !.rpm = vehicle_state.motor_rpm,
                            !.power = vehicle_state.power ] ]
    /\ HLocal(h)

\* lines 308-312: the request arrives
StartToggleCharging(h) ==
    /\ hs[h].pc = "idle" /\ ncalls < MaxCalls
    /\ ncalls' = ncalls + 1
    /\ \E c \in BOOLEAN :
         hs' = [ hs EXCEPT ![h] =
                   [ IdleHandler EXCEPT !.pc = "c315", !.op = "toggle", !.charging = c ] ]
    /\ Others(h) /\ UNCHANGED <<vehicle_state, store, clock>>

\* lines 315-316
C315(h) ==
    /\ hs[h].pc = "c315"
    /\ hs' = [ hs EXCEPT ![h] =
                 IF MotorRunning(vehicle_state, hs[h].charging)
                 THEN Reply(@, 400, "Cannot start charging while motor is running")
                 ELSE [ @ EXCEPT !.pc = "c318" ] ]
    /\ HLocal(h)

\* lines 318-319
C318(h) ==
    /\ hs[h].pc = "c318"
    /\ hs' = [ hs EXCEPT ![h] =
                 IF BatteryFull(vehicle_state, hs[h].charging)
                 THEN Reply(@, 400, "Battery is already full")
                 ELSE [ @ EXCEPT !.pc = "c322" ] ]
    /\ HLocal(h)

\* lines 322-323
C322(h) ==
    /\ hs[h].pc = "c322"
    /\ vehicle_state' = [ vehicle_state EXCEPT !.is_charging = hs[h].charging ]
    /\ hs' = [ hs EXCEPT ![h].pc = IF hs[h].charging THEN "c324" ELSE "c328",
                         ![h].dirty = TRUE ]
    /\ HWrite(h)

\* line 324
C324(h) ==
    /\ hs[h].pc = "c324"
    /\ vehicle_state' = [ vehicle_state EXCEPT !.motor_speed_setting = 0 ]
    /\ Goto(h, "c325")
    /\ HWrite(h)

\* line 325
C325(h) ==
    /\ hs[h].pc = "c325"
    /\ vehicle_state' = [ vehicle_state EXCEPT !.motor_rpm = 0 ]
    /\ Goto(h, "c326")
    /\ HWrite(h)

\* line 326
C326(h) ==
    /\ hs[h].pc = "c326"
    /\ vehicle_state' = [ vehicle_state EXCEPT !.power = CHARGING_POWER ]
    /\ Goto(h, "c332")
    /\ HWrite(h)

\* line 328
C328(h) ==
    /\ hs[h].pc = "c328"
    /\ vehicle_state' = [ vehicle_state EXCEPT !.power = 0 ]
    /\ Goto(h, "c332")
    /\ HWrite(h)

\* lines 331-332: doc_ref.set(vehicle_state) succeeds
C332(h) ==
    /\ hs[h].pc = "c332"
    /\ store' = vehicle_state
    /\ hs' = [ hs EXCEPT ![h].pc = "c335", ![h].saved = TRUE ]
    /\ Others(h) /\ UNCHANGED <<vehicle_state, clock, ncalls>>

\* lines 331-332, 341-343: doc_ref.set raises
C332Fail(h) ==
    /\ hs[h].pc = "c332"
    /\ hs' = [ hs EXCEPT ![h] = Reply(@, 500, "Internal server error") ]
    /\ HLocal(h)

\* lines 334-339: the response reads battery_percentage
C335(h) ==
    /\ hs[h].pc = "c335"
    /\ hs' = [ hs EXCEPT ![h] =
                 [ Reply(@, 200, "Charging state updated")
                     EXCEPT !.battery = vehicle_state.battery_percentage ] ]
    /\ HLocal(h)

\* line 346: the request arrives
StartReset(h) ==
    /\ hs[h].pc = "idle" /\ ncalls < MaxCalls
    /\ ncalls' = ncalls + 1
    /\ hs' = [ hs EXCEPT ![h] = [ IdleHandler EXCEPT !.pc = "r350", !.op = "reset" ] ]
    /\ Others(h) /\ UNCHANGED <<vehicle_state, store, clock>>

\* lines 349-363: the global is rebound to a fresh default dict
R350(h) ==
    /\ hs[h].pc = "r350"
    /\ clock' = clock + 1
    /\ vehicle_state' = DefaultState(clock + 1)
    /\ hs' = [ hs EXCEPT ![h].pc = "r367", ![h].dirty = TRUE ]
    /\ Others(h) /\ UNCHANGED <<store, ncalls>>

\* lines 366-370: doc_ref.set(vehicle_state) succeeds, the response
R367(h) ==
    /\ hs[h].pc = "r367"
    /\ store' = vehicle_state
    /\ hs' = [ hs EXCEPT ![h] =
                 Reply([ @ EXCEPT !.saved = TRUE ], 200, "State reset successfully") ]
    /\ Others(h) /\ UNCHANGED <<vehicle_state, clock, ncalls>>

\* lines 366-367, 372-374: doc_ref.set raises
R367Fail(h) ==
    /\ hs[h].pc = "r367"
    /\ hs' = [ hs EXCEPT ![h] = Reply(@, 500, "Internal server error") ]
    /\ HLocal(h)

\* the response has been sent; the worker thread is free again
Return(h) ==
    /\ hs[h].pc = "done"
    /\ hs' = [ hs EXCEPT ![h] = IdleHandler ]
    /\ HLocal(h)

HandlerStep(h) ==
    \/ StartBadJson(h) \/ StartSetMotorSpeed(h) \/ StartToggleCharging(h) \/ StartReset(h)
    \/ S269(h) \/ S272(h) \/ S275(h) \/ S279(h) \/ S280(h) \/ S281r(h) \/ S281w(h)
    \/ S285r(h) \/ S285w(h) \/ S286(h) \/ S290(h) \/ S290Fail(h) \/ S293(h)
    \/ C315(h) \/ C318(h) \/ C322(h) \/ C324(h) \/ C325(h) \/ C326(h) \/ C328(h)
    \/ C332(h) \/ C332Fail(h) \/ C335(h)
    \/ R350(h) \/ R367(h) \/ R367Fail(h)
    \/ Return(h)

Next == TickStep \/ \E h \in Handlers : HandlerStep(h)

Spec == Init /\ [][Next]_vars

\* Every thread that can take a step eventually takes one: the interpreter
\* hands the GIL to each runnable thread, time.sleep(1) returns, and a
\* request being handled is handled to its response.
Fairness ==
    /\ WF_vars(TickStep)
    /\ \A h \in Handlers : WF_vars(HandlerStep(h))

LiveSpec == Init /\ [][Next]_vars /\ Fairness


\* =================================================================== claims
\* The tables and defaults as the specification documents them.
RPM_TABLE(s) == CASE s = 0 -> 0 [] s = 1 -> 1500 [] s = 2 -> 3000 [] s = 3 -> 4500 [] s = 4 -> 6000
GEAR_TABLE(s) ==
    CASE s = 0 -> "N/N" [] s = 1 -> "4.5:1" [] s = 2 -> "6.2:1" [] s = 3 -> "8.1:1" [] s = 4 -> "10.3:1"
POWER_TABLE(s) == CASE s = 0 -> 0 [] s = 1 -> 100 [] s = 2 -> 300 [] s = 3 -> 600 [] s = 4 -> 1000

Threads == Handlers \cup {"tick"}

\* no operation is in progress
Quiescent ==
    /\ tick.pc = "t118"
    /\ \A h \in Handlers : hs[h].pc \in {"idle", "done"}

\* thread t is between the first access of its operation to the record and
\* its persistence snapshot
InRegion(t) ==
    IF t = "tick"
    THEN tick.pc # "t118"
    ELSE hs[t].pc \in { "s272", "s275", "s279", "s280", "s281r", "s281w", "s285r",
                        "s285w", "s286", "s290",
                        "c318", "c322", "c324", "c325", "c326", "c328", "c332",
                        "r367" }

\* handler h takes a step that leaves position p
Leaves(h, p) == hs[h].pc = p /\ hs'[h] # hs[h]

\* the step answers the request with a 400 and the message m
Rejected(h, m) ==
    /\ hs'[h].pc = "done" /\ hs'[h].code = 400 /\ hs'[h].msg = m
    /\ ~hs'[h].dirty /\ ~hs'[h].saved
    /\ vehicle_state' = vehicle_state /\ store' = store

\* C1: motor_speed_setting > 0 and is_charging never hold at the same time,
\* in any reachable state.
C1_NeverChargingWhileRunning ==
    ~(vehicle_state.motor_speed_setting > 0 /\ vehicle_state.is_charging)

\* C2: the operations exclude each other: no two threads are at the same
\* time between the first access of their operation and its persistence
\* snapshot, so no operation reads, writes or persists the record in the
\* middle of another one.
C2_MutualExclusion ==
    \A t1, t2 \in Threads : t1 # t2 => ~(InRegion(t1) /\ InRegion(t2))

\* C3: in every reachable state 0 <= battery_percentage <= 100 and
\* 25 <= battery_temperature <= 80.
C3_BatteryAndTemperatureInBounds ==
    /\ 0 <= vehicle_state.battery_percentage
    /\ vehicle_state.battery_percentage <= 100 * BattScale
    /\ 25 * TempScale <= vehicle_state.battery_temperature
    /\ vehicle_state.battery_temperature <= 80 * TempScale

\* a tick has just drained the battery, which was above 0, and clamped it at 0
C3_Witness ==
    /\ nticks = 1 /\ ncalls = 0
    /\ tick.pc = "t133" /\ vehicle_state.battery_percentage = 0
    /\ store.battery_percentage > 0

\* C4: SetMotorSpeed is rejected (400) with the invalid-speed error when the
\* speed is not in 0..4, and with the precondition error of the check it
\* fails when is_charging is true, battery_percentage <= 0 or parking_brake
\* is true, whatever the speed; a rejected call has written no field and
\* made no persistence write.
C4_Step(h) ==
    /\ (hs[h].pc = "idle" /\ hs'[h].op = "set" /\ hs'[h].speed \notin 0 .. 4)
         => Rejected(h, "Invalid speed setting (must be 0-4)")
    /\ (Leaves(h, "s269") /\ vehicle_state.is_charging)
         => Rejected(h, "Cannot change speed while charging")
    /\ (Leaves(h, "s272") /\ vehicle_state.battery_percentage <= 0)
         => Rejected(h, "Battery depleted")
    /\ (Leaves(h, "s275") /\ vehicle_state.parking_brake)
         => Rejected(h, "Cannot operate motor while parking brake is engaged")
    /\ (hs[h].pc # "done" /\ hs'[h].pc = "done" /\ hs'[h].op = "set" /\ hs'[h].code = 400)
         => /\ ~hs'[h].dirty /\ ~hs'[h].saved
            /\ vehicle_state' = vehicle_state /\ store' = store

C4_SetMotorSpeedRejects == [][\A h \in Handlers : C4_Step(h)]_vars

\* SetMotorSpeed(0) has been rejected because the battery is empty
C4_Witness ==
    \E h \in Handlers :
        /\ hs[h].pc = "done" /\ hs[h].op = "set" /\ hs[h].speed = 0
        /\ hs[h].code = 400 /\ hs[h].msg = "Battery depleted"
        /\ vehicle_state.battery_percentage = 0

\* C5: a SetMotorSpeed(s) call whose preconditions hold leaves the record
\* with motor_speed_setting = s, motor_rpm = RPM_TABLE[s], gear_ratio =
\* GEAR_TABLE[s], motor_status = (motor_rpm > 3000) and power =
\* calculate_power_consumption(s, battery_percentage), and returns that
\* speed, rpm and power.
C5_Left(h) ==
    LET s == hs[h].speed
        b == vehicle_state'.battery_percentage
    IN  /\ vehicle_state'.motor_speed_setting = s
        /\ vehicle_state'.motor_rpm = RPM_TABLE(s)
        /\ vehicle_state'.gear_ratio = GEAR_TABLE(s)
        /\ vehicle_state'.motor_status = (vehicle_state'.motor_rpm > 3000)
        /\ vehicle_state'.power =
             IF b <= 0 THEN 0
             ELSE POWER_TABLE(s) * (IF 2 * b >= 100 * BattScale THEN b ELSE 50 * BattScale)

C5_Returned(h) ==
    /\ hs'[h].code = 200
    /\ hs'[h].rpm = RPM_TABLE(hs[h].speed)
    /\ hs'[h].power = vehicle_state'.power

C5_SetMotorSpeedEffect ==
    [][\A h \in Handlers :
          /\ Leaves(h, "s286") => C5_Left(h)
          /\ Leaves(h, "s293") => C5_Returned(h)]_vars

\* C6: ToggleCharging(true) is rejected (400) when motor_speed_setting > 0
\* or battery_percentage >= 100, a rejected call has written no field and
\* made no persistence write, and ToggleCharging(false) is never rejected
\* by a precondition.
C6_Step(h) ==
    /\ (Leaves(h, "c315") /\ hs[h].charging /\ vehicle_state.motor_speed_setting > 0)
         => Rejected(h, "Cannot start charging while motor is running")
    /\ (Leaves(h, "c318") /\ hs[h].charging
          /\ vehicle_state.battery_percentage >= 100 * BattScale)
         => Rejected(h, "Battery is already full")
    /\ (hs[h].pc # "done" /\ hs'[h].pc = "done" /\ hs'[h].op = "toggle"
          /\ hs'[h].code = 400)
         => /\ ~hs'[h].dirty /\ ~hs'[h].saved
            /\ vehicle_state' = vehicle_state /\ store' = store
    /\ (hs[h].op = "toggle" /\ ~hs[h].charging /\ hs[h].pc \in {"c315", "c318"}
          /\ hs'[h] # hs[h])
         => hs'[h].pc # "done"

C6_ToggleChargingRejects == [][\A h \in Handlers : C6_Step(h)]_vars

\* ToggleCharging(true) has been rejected because the motor runs
C6_Witness ==
    \E h \in Handlers :
        /\ hs[h].pc = "done" /\ hs[h].op = "toggle" /\ hs[h].charging
        /\ hs[h].code = 400 /\ hs[h].msg = "Cannot start charging while motor is running"
        /\ vehicle_state.motor_speed_setting > 0

\* C7: a successful ToggleCharging(true) leaves is_charging = true,
\* motor_speed_setting = 0, motor_rpm = 0 and power = -5; a
\* ToggleCharging(false) leaves is_charging = false and power = 0; the call
\* changes no other field.
C7_OnlyItsFields(h) ==
    vehicle_state' = [ vehicle_state EXCEPT
                         !.is_charging = vehicle_state'.is_charging,
                         !.motor_speed_setting = vehicle_state'.motor_speed_setting,
                         !.motor_rpm = vehicle_state'.motor_rpm,
                         !.power = vehicle_state'.power ]

C7_ToggleChargingEffect ==
    [][\A h \in Handlers :
          /\ Leaves(h, "c326")
               => /\ vehicle_state'.is_charging
                  /\ vehicle_state'.motor_speed_setting = 0
                  /\ vehicle_state'.motor_rpm = 0
                  /\ vehicle_state'.power = (0 - 5) * PowerScale
          /\ Leaves(h, "c328")
               => /\ ~vehicle_state'.is_charging
                  /\ vehicle_state'.power = 0
          /\ (hs[h].op = "toggle" /\ hs'[h] # hs[h]) => C7_OnlyItsFields(h)]_vars

\* C8: is_charging implies power = -5, stated for the states in which no
\* operation is in progress.
C8_ChargingPowerIsSentinel ==
    Quiescent =>
        (vehicle_state.is_charging => vehicle_state.power = (0 - 5) * PowerScale)

\* C9: Reset has no precondition (it is never answered with a 400) and sets
\* every field to its default: flags false, power 0, rpm 0, gear "N/N",
\* battery 100, temperature 25, speed 0; a Reset of a state that is at its
\* defaults leaves it at its defaults (idempotence, last_update aside).
C9_Defaults(vs) ==
    /\ ~vs.parking_brake /\ ~vs.check_engine /\ ~vs.motor_status
    /\ ~vs.battery_low /\ ~vs.is_charging
    /\ vs.power = 0 /\ vs.motor_rpm = 0 /\ vs.gear_ratio = "N/N"
    /\ vs.battery_percentage = 100 * BattScale
    /\ vs.battery_temperature = 25 * TempScale
    /\ vs.motor_speed_setting = 0

C9_ResetRestoresDefaults ==
    [][\A h \in Handlers :
          /\ (hs[h].pc = "idle" /\ hs'[h].op = "reset") => hs'[h].pc = "r350"
          /\ Leaves(h, "r350")
               => /\ C9_Defaults(vehicle_state') /\ hs'[h].pc = "r367"
                  /\ C9_Defaults(vehicle_state)
                       => [vehicle_state' EXCEPT !.last_update = 0]
                            = [vehicle_state EXCEPT !.last_update = 0]
          /\ Leaves(h, "r367")
               => /\ hs'[h].pc = "done"
                  /\ hs'[h].code = IF hs'[h].saved THEN 200 ELSE 500]_vars

\* two Resets in a row have acted on a record that was not at its defaults
\* (the store still holds it: the first Reset's persistence write failed)
C9_Witness ==
    /\ clock = 2 /\ nticks = 0
    /\ store.motor_speed_setting = 4
    /\ C9_Defaults(vehicle_state)
    /\ \E h \in Handlers : hs[h].pc = "r367"

\* C10: motor_rpm = RPM_TABLE[motor_speed_setting] and gear_ratio =
\* GEAR_TABLE[motor_speed_setting], stated for the states in which no
\* operation is in progress.
C10_RpmAndGearFollowSpeed ==
    Quiescent =>
        /\ vehicle_state.motor_rpm = RPM_TABLE(vehicle_state.motor_speed_setting)
        /\ vehicle_state.gear_ratio = GEAR_TABLE(vehicle_state.motor_speed_setting)

\* C11: every record written to the persistence store (what GetState
\* returns) satisfies battery_low = (battery_percentage < 20) and
\* motor_status = (motor_rpm > 3000), whichever operation wrote it.
C11_StoredFlagsAreDerived ==
    /\ store.battery_low = (store.battery_percentage < 20 * BattScale)
    /\ store.motor_status = (store.motor_rpm > 3000)

\* C12: last_update is set on every mutation: whenever a persistence write
\* of the tick or of a successful SetMotorSpeed, ToggleCharging or Reset
\* changes the stored record, the record carries a new, later last_update.
C12_LastUpdateOnEveryMutation ==
    [][store' # store => store'.last_update > store.last_update]_vars

\* C13: when the persistence write of a SetMotorSpeed, ToggleCharging or
\* Reset call fails, the call answers 500, the record in memory keeps the
\* mutation (the failing step changes neither the record nor the store), and
\* the update thread and the other workers go on unaffected.
C13_Step(h) ==
    (hs[h].pc \in {"s290", "c332", "r367"} /\ hs'[h] # hs[h] /\ ~hs'[h].saved)
      => /\ hs'[h].pc = "done" /\ hs'[h].code = 500
         /\ hs'[h].msg = "Internal server error"
         /\ hs'[h].dirty
         /\ vehicle_state' = vehicle_state /\ store' = store
         /\ tick' = tick
         /\ \A g \in Handlers \ {h} : hs'[g] = hs[g]

C13_PersistenceFailureKeepsMutation == [][\A h \in Handlers : C13_Step(h)]_vars

\* SetMotorSpeed(4) was answered 500, the store still holds speed 0, and a
\* later tick has taken the driving branch on the record in memory
C13_Witness ==
    \E h \in Handlers :
        /\ hs[h].pc = "done" /\ hs[h].op = "set" /\ hs[h].speed = 4
        /\ hs[h].code = 500 /\ hs[h].dirty /\ ~hs[h].saved
        /\ vehicle_state.motor_speed_setting = 4 /\ store.motor_speed_setting = 0
        /\ nticks = 1 /\ tick.pc = "t120"

\* C18: a tick never writes motor_speed_setting, motor_rpm, gear_ratio,
\* is_charging or power: every step of the update thread leaves the five
\* fields as they are, also when it brings the battery to 0 or to 100.
C18_TickLeavesCommandFields ==
    [][tick' # tick =>
          /\ vehicle_state'.motor_speed_setting = vehicle_state.motor_speed_setting
          /\ vehicle_state'.motor_rpm = vehicle_state.motor_rpm
          /\ vehicle_state'.gear_ratio = vehicle_state.gear_ratio
          /\ vehicle_state'.is_charging = vehicle_state.is_charging
          /\ vehicle_state'.power = vehicle_state.power]_vars

\* a whole tick has drained the battery to 0 and persisted: the motor still
\* runs at speed 4 and power still reads the 1000 kW computed at full charge
C18_Witness ==
    /\ nticks = 1 /\ ncalls = 0 /\ tick.pc = "t118"
    /\ vehicle_state.battery_percentage = 0 /\ store.battery_percentage = 0
    /\ vehicle_state.motor_speed_setting = 4 /\ vehicle_state.motor_rpm = 6000
    /\ vehicle_state.power = 1000 * PowerScale
    /\ ~vehicle_state.is_charging

\* C14: the update loop never terminates.  A tick whose persistence write
\* fails goes back to the loop head like any other tick, keeps the updates
\* it made in memory and touches no request handler (the error reaches no
\* caller); every iteration begun returns to the loop head, and as long as
\* the bound on ticks allows a further iteration begins.
C14_FailedTick ==
    (tick.pc = "t178" /\ tick' # tick /\ store' = store)
      => /\ tick' = IdleTick
         /\ vehicle_state' = vehicle_state
         /\ hs' = hs

TickLeaves(p) == tick.pc = p /\ tick' # tick

\* the drain of one tick as the specification gives it, in battery units:
\* POWER_TABLE[s] * max(0.5, b / 100) * 0.001, nothing when b <= 0
SPEC_DRAIN(s, b) ==
    IF b <= 0 THEN 0
    ELSE (POWER_TABLE(s) * (IF 2 * b >= 100 * BattScale THEN b ELSE 50 * BattScale))
           \div (100 * BattScale)

\* target = 25 + 55 * s / 4, in temperature units
SPEC_TARGET(s) == 25 * TempScale + (55 * TempScale * s) \div 4

\* C15: a tick taken while is_charging is false and motor_speed_setting =
\* s > 0 (a tick in its driving branch) lowers battery_percentage by
\* calculate_power_consumption(s, battery_percentage) * 0.001, clamped at 0,
\* raises a battery_temperature below target = 25 + 55 * s / 4 by 0.1 but
\* never above target, and leaves a temperature at or above target unchanged.
C15_DrivingTick ==
    [][LET s == vehicle_state.motor_speed_setting
           b == vehicle_state.battery_percentage
           t == vehicle_state.battery_temperature
       IN  /\ TickLeaves("t127w")
                => vehicle_state'.battery_percentage
                     = (IF b - SPEC_DRAIN(s, b) >= 0 THEN b - SPEC_DRAIN(s, b) ELSE 0)
           /\ TickLeaves("t139w")
                => /\ vehicle_state'.battery_temperature
                        = (IF t + TempScale \div 10 <= SPEC_TARGET(s)
                           THEN t + TempScale \div 10 ELSE SPEC_TARGET(s))
                   /\ vehicle_state'.battery_temperature <= SPEC_TARGET(s)
           /\ (TickLeaves("t138") /\ t >= SPEC_TARGET(s))
                => tick'.pc = "t162r"]_vars

\* C16: a tick taken while is_charging is true (a tick in its charging
\* branch) raises battery_percentage by 0.4 if it is below 20 and by 0.2
\* otherwise, clamped at 100, and lowers battery_temperature by 0.05, floored
\* at 25.
C16_ChargingTick ==
    [][LET b == vehicle_state.battery_percentage
           t == vehicle_state.battery_temperature
           up == IF b < 20 * BattScale THEN (4 * BattScale) \div 10 ELSE (2 * BattScale) \div 10
       IN  /\ TickLeaves("t150w")
                => vehicle_state'.battery_percentage
                     = (IF b + up <= 100 * BattScale THEN b + up ELSE 100 * BattScale)
           /\ TickLeaves("t156w")
                => vehicle_state'.battery_temperature
                     = (IF t - TempScale \div 20 >= 25 * TempScale
                        THEN t - TempScale \div 20 ELSE 25 * TempScale)]_vars

\* C17: a tick taken while the vehicle is idle leaves battery_percentage and
\* battery_temperature unchanged: a tick that finds is_charging false and
\* motor_speed_setting = 0 at its tests enters neither branch, the branches
\* are entered only on their conditions, and outside the two branches no
\* step of the tick writes either field.
C17_IdleTick ==
    [][/\ (TickLeaves("t118") /\ ~vehicle_state.is_charging
             /\ vehicle_state.motor_speed_setting = 0) => tick'.pc = "t144"
       /\ (TickLeaves("t144") /\ ~vehicle_state.is_charging) => tick'.pc = "t162r"
       /\ (TickLeaves("t118") /\ tick'.pc # "t144")
            => ~vehicle_state.is_charging /\ vehicle_state.motor_speed_setting > 0
       /\ (TickLeaves("t144") /\ tick'.pc # "t162r") => vehicle_state.is_charging
       /\ (tick' # tick /\ tick.pc \notin {"t127w", "t139w", "t150w", "t156w"})
            => /\ vehicle_state'.battery_percentage = vehicle_state.battery_percentage
               /\ vehicle_state'.battery_temperature = vehicle_state.battery_temperature]_vars

\* a whole tick has run and persisted on the idle vehicle whose pack the
\* motor had heated to 38 degrees: battery and temperature are as before
C17_Witness ==
    /\ nticks = 1 /\ ncalls = 0 /\ tick.pc = "t118"
    /\ ~vehicle_state.is_charging /\ vehicle_state.motor_speed_setting = 0
    /\ vehicle_state.battery_temperature = 38 * TempScale
    /\ vehicle_state.battery_percentage = LowIdle.battery_percentage
    /\ vehicle_state.last_update = 1 /\ store = vehicle_state

\* the motor drained the battery
C19_Drained(vs) ==
    vs.battery_percentage = 0 /\ ~vs.is_charging /\ vs.motor_speed_setting > 0

\* C19: once battery_percentage = 0, is_charging = false and
\* motor_speed_setting > 0, a SetMotorSpeed call checked in that state is
\* rejected (battery depleted), a ToggleCharging(true) call checked in it is
\* rejected (motor running), and every step other than a Reset keeps
\* battery_percentage, is_charging and motor_speed_setting as they are.
C19_DrainedIsStuck ==
    [][/\ (C19_Drained(vehicle_state) /\ ~(\E h \in Handlers : Leaves(h, "r350")))
            => /\ C19_Drained(vehicle_state')
               /\ vehicle_state'.motor_speed_setting = vehicle_state.motor_speed_setting
       /\ \A h \in Handlers :
            /\ (Leaves(h, "s272") /\ C19_Drained(vehicle_state))
                 => Rejected(h, "Battery depleted")
            /\ (Leaves(h, "c315") /\ hs[h].charging /\ C19_Drained(vehicle_state))
                 => Rejected(h, "Cannot start charging while motor is running")]_vars

\* charging has filled the battery
C20_Full(vs) ==
    /\ vs.is_charging /\ vs.battery_percentage = 100 * BattScale
    /\ vs.power = (0 - 5) * PowerScale

\* neither before nor after the step is a ToggleCharging(false) or a Reset
\* being handled
C20_NoStop ==
    \A h \in Handlers :
        /\ hs[h].op # "reset" /\ ~(hs[h].op = "toggle" /\ ~hs[h].charging)
        /\ hs'[h].op # "reset" /\ ~(hs'[h].op = "toggle" /\ ~hs'[h].charging)

\* C20: once charging has brought battery_percentage to 100, it stays at
\* 100 with is_charging still true and power still -5 as long as no
\* ToggleCharging(false) and no Reset is handled, and a ToggleCharging(true)
\* checked from then on is rejected as battery full.
C20_FullStaysFull ==
    [][/\ (C20_Full(vehicle_state) /\ C20_NoStop) => C20_Full(vehicle_state')
       /\ \A h \in Handlers :
            (Leaves(h, "c318") /\ hs[h].charging /\ C20_Full(vehicle_state))
              => Rejected(h, "Battery is already full")]_vars

====
